---------------------------- MODULE Spec2Model ----------------------------
(***************************************************************************)
(* A model of pathnynj-gtfs-realtime (src/src/lib.rs): parse_path_alerts   *)
(* turns the station blocks of the PATH alert bulletin into a GTFS         *)
(* realtime FeedMessage, find_route_ids resolves route abbreviations.      *)
(*                                                                         *)
(* Representation of text.  A string is a sequence of lexical pieces, each *)
(* piece a TLA+ string standing for its characters.  The date/time strings *)
(* are sequences of single characters.  Alert texts are sequences of       *)
(* words, blanks and punctuation marks; no word of the alphabet used here  *)
(* contains a piece of another, so a substring or a regex match of the     *)
(* character string starts and ends on a piece boundary and matching       *)
(* pieces is matching characters.                                          *)
(*                                                                         *)
(* Option<T> is a sequence of length at most one: None is << >>, Some(x)   *)
(* is <<x>>.  A u64 is a record [carry, low] whose value is                *)
(* carry * 2^64 + low (TLC's integers cannot hold 2^64).                   *)
(***************************************************************************)
EXTENDS Integers, Sequences, FiniteSets, TLC

VARIABLES
    content,            \* the station blocks document.select(STATION_SELECTOR) yields
    gtfs,               \* the reference dataset: [routes, agencies]
    clock,              \* the system clock, seconds since the epoch (negative: before it)
    pc,                 \* where the caller / parse_path_alerts is
    index,              \* enumerate()'s counter
    entities,           \* the Vec<FeedEntity> being built
    current_timestamp,  \* the captured SystemTime::now()
    clock_reads,        \* how often this invocation has read the clock
    result,             \* Option of what the invocation returned
    previous,           \* what the invocation before this one returned, with its clock reading
    calls,              \* invocations started so far
    arg,                \* the pure-function specifications: the argument
    ret                 \* ... and the values returned so far

vars == <<content, gtfs, clock, pc, index, entities, current_timestamp,
          clock_reads, result, previous, calls, arg, ret>>

None == << >>
Some(x) == <<x>>

-----------------------------------------------------------------------------
(* Sequences *)

\* All sequences over S of length at most n.
SeqsUpTo(S, n) == UNION {[1..k -> S] : k \in 0..n}

RECURSIVE Concat(_)
\* [String]::join(""): the pieces of the chunks, one after the other.
Concat(chunks) ==
    IF chunks = << >> THEN << >> ELSE Head(chunks) \o Concat(Tail(chunks))

\* s[from..to], empty when from > to.
Slice(s, from, to) == IF from > to THEN << >> ELSE SubSeq(s, from, to)

\* Whether the pieces of lit occur in s starting at position p.
StartsWithAt(s, p, lit) ==
    /\ p + Len(lit) - 1 <= Len(s)
    /\ \A j \in 1..Len(lit) : s[p + j - 1] = lit[j]

\* Rust's White_Space, as far as the alphabets here hold it.
WhiteSpace == {" ", "\n", "\t"}

RECURSIVE TrimStart(_)
TrimStart(s) ==
    IF s # << >> /\ Head(s) \in WhiteSpace THEN TrimStart(Tail(s)) ELSE s

RECURSIVE TrimEnd(_)
TrimEnd(s) ==
    IF s # << >> /\ s[Len(s)] \in WhiteSpace
    THEN TrimEnd(SubSeq(s, 1, Len(s) - 1))
    ELSE s

\* str::trim
Trim(s) == TrimEnd(TrimStart(s))

-----------------------------------------------------------------------------
(* APOLOGIZE_REGEX and the text cleaning of parse_path_alerts *)

Lit(alts) == [kind |-> "lit", alts |-> alts, opt |-> FALSE]
Opt(alts) == [kind |-> "lit", alts |-> alts, opt |-> TRUE]
DotStar == [kind |-> "dotstar", alts |-> << >>, opt |-> FALSE]

\* We (apologize|regret) (for )?(the|this|any)?( )?(inconvenience)( )?(this )?
\* (may )?(have|has)?( )?(caused)?(.*\.?)   -- each group with its
\* alternatives in the order the regex tries them.
APOLOGIZE_REGEX ==
    << Lit(<< <<"We", " ">> >>),
       Lit(<< <<"apologize">>, <<"regret">> >>),
       Lit(<< <<" ">> >>),
       Opt(<< <<"for", " ">> >>),
       Opt(<< <<"the">>, <<"this">>, <<"any">> >>),
       Opt(<< <<" ">> >>),
       Lit(<< <<"inconvenience">> >>),
       Opt(<< <<" ">> >>),
       Opt(<< <<"this", " ">> >>),
       Opt(<< <<"may", " ">> >>),
       Opt(<< <<"have">>, <<"has">> >>),
       Opt(<< <<" ">> >>),
       Opt(<< <<"caused">> >>),
       DotStar,
       Opt(<< <<".">> >>) >>

NoMatch == 0 - 1

\* Variant: the pattern without its tail (.*\.?), the match ending where the
\* optional words end.
NoTail(s, p) == p

\* The first position at or after p that holds a line break, or Len(s) + 1:
\* "." matches any character but "\n".
RECURSIVE LineEnd(_, _)
LineEnd(s, p) ==
    IF p > Len(s) \/ s[p] = "\n" THEN p ELSE LineEnd(s, p + 1)

RECURSIVE MatchItems(_, _, _, _)
RECURSIVE MatchAlts(_, _, _, _, _)
RECURSIVE MatchDotStar(_, _, _, _, _)

\* The regex crate's leftmost-first match of items k.. of re at position p of s:
\* the position after the match, or NoMatch.  Greedy: an optional group is
\* tried before it is skipped, .* takes the most first.
MatchItems(re, s, p, k) ==
    IF k > Len(re) THEN p
    ELSE IF re[k].kind = "dotstar"
         THEN MatchDotStar(re, s, p, k, LineEnd(s, p))
         ELSE MatchAlts(re, s, p, k, 1)

MatchAlts(re, s, p, k, a) ==
    IF a > Len(re[k].alts)
    THEN IF re[k].opt THEN MatchItems(re, s, p, k + 1) ELSE NoMatch
    ELSE LET lit == re[k].alts[a]
             r == IF StartsWithAt(s, p, lit)
                  THEN MatchItems(re, s, p + Len(lit), k + 1)
                  ELSE NoMatch
         IN IF r # NoMatch THEN r ELSE MatchAlts(re, s, p, k, a + 1)

MatchDotStar(re, s, p, k, q) ==
    LET r == MatchItems(re, s, q, k + 1)
    IN IF r # NoMatch THEN r
       ELSE IF q > p THEN MatchDotStar(re, s, p, k, q - 1) ELSE NoMatch

\* Regex::find_at: the leftmost match starting at or after p, as
\* <<start, end>> (end exclusive), or << >>.
RECURSIVE FindAt(_, _, _)
FindAt(re, s, p) ==
    IF p > Len(s) THEN << >>
    ELSE LET e == MatchItems(re, s, p, 1)
         IN IF e # NoMatch THEN <<p, e>> ELSE FindAt(re, s, p + 1)

\* Regex::replacen(s, 1, ""): only the first match removed.
ReplaceFirst(re, s) ==
    LET m == FindAt(re, s, 1)
    IN IF m = << >> THEN s
       ELSE Slice(s, 1, m[1] - 1) \o Slice(s, m[2], Len(s))

RECURSIVE ReplaceAllFrom(_, _, _)
ReplaceAllFrom(re, s, p) ==
    LET m == FindAt(re, s, p)
    IN IF m = << >> THEN Slice(s, p, Len(s))
       ELSE Slice(s, p, m[1] - 1) \o ReplaceAllFrom(re, s, m[2])

\* Variant: replacen(s, 1, "") in place of replace_all.
ReplaceFirstOnly(re, s) == ReplaceFirst(re, s)

\* Regex::replace_all(s, ""): every non-overlapping match removed.
ReplaceAll(re, s) == ReplaceAllFrom(re, s, 1)

\* lib.rs 92-95: APOLOGIZE_REGEX.replace_all(&alert_text, "").trim()
CleanAlertText(alert_text) == Trim(ReplaceAll(APOLOGIZE_REGEX, alert_text))

-----------------------------------------------------------------------------
(* NaiveDateTime::parse_from_str(full_date_str, "%m/%d/%Y %I:%M %p") *)

Digits == {"0", "1", "2", "3", "4", "5", "6", "7", "8", "9"}

DigitVal(c) ==
    CASE c = "0" -> 0 [] c = "1" -> 1 [] c = "2" -> 2 [] c = "3" -> 3
      [] c = "4" -> 4 [] c = "5" -> 5 [] c = "6" -> 6 [] c = "7" -> 7
      [] c = "8" -> 8 [] c = "9" -> 9

Err == [ok |-> FALSE]

RECURSIVE ScanDigits(_, _, _, _)
\* The digits scan::number consumes: at most max, stopping at the first
\* character that is no digit.  <<digits consumed, value>>.
ScanDigits(s, max, i, n) ==
    IF i < max /\ i < Len(s) /\ s[i + 1] \in Digits
    THEN ScanDigits(s, max, i + 1, n * 10 + DigitVal(s[i + 1]))
    ELSE <<i, n>>

\* chrono's scan::number(s, min, max): between min and max digits at the
\* head of s; [ok, rest, value].
ScanNumber(s, min, max) ==
    LET r == ScanDigits(s, max, 0, 0)
    IN IF Len(s) < min \/ r[1] < min THEN Err
       ELSE [ok |-> TRUE, rest |-> Slice(s, r[1] + 1, Len(s)), value |-> r[2]]

\* StrftimeItems of "%m/%d/%Y %I:%M %p".
DATE_FORMAT ==
    << [kind |-> "num", field |-> "month", width |-> 2, signed |-> FALSE],
       [kind |-> "lit", text |-> <<"/">>],
       [kind |-> "num", field |-> "day", width |-> 2, signed |-> FALSE],
       [kind |-> "lit", text |-> <<"/">>],
       [kind |-> "num", field |-> "year", width |-> 4, signed |-> TRUE],
       [kind |-> "space"],
       [kind |-> "num", field |-> "hour12", width |-> 2, signed |-> FALSE],
       [kind |-> "lit", text |-> <<":">>],
       [kind |-> "num", field |-> "minute", width |-> 2, signed |-> FALSE],
       [kind |-> "space"],
       [kind |-> "ampm"] >>

\* One numeric item: leading white space is skipped, a signed item (the year)
\* may carry + or -, and then is not limited to its width.
ParseNumeric(item, s0) ==
    LET s == TrimStart(s0)
    IN IF item.signed /\ s # << >> /\ Head(s) = "-"
       THEN LET r == ScanNumber(Tail(s), 1, Len(s))
            IN IF r.ok THEN [r EXCEPT !.value = 0 - r.value] ELSE Err
       ELSE IF item.signed /\ s # << >> /\ Head(s) = "+"
       THEN ScanNumber(Tail(s), 1, Len(s))
       ELSE ScanNumber(s, 1, item.width)

\* %p: "am" or "pm" in either case; value 1 for pm.
ParseAmPm(s) ==
    IF Len(s) < 2 THEN Err
    ELSE IF s[1] \in {"a", "A"} /\ s[2] \in {"m", "M"}
         THEN [ok |-> TRUE, rest |-> Slice(s, 3, Len(s)), value |-> 0]
    ELSE IF s[1] \in {"p", "P"} /\ s[2] \in {"m", "M"}
         THEN [ok |-> TRUE, rest |-> Slice(s, 3, Len(s)), value |-> 1]
    ELSE Err

RECURSIVE ParseItems(_, _, _, _)
\* format::parse: the items in turn, each consuming from s and setting its
\* field of Parsed; input left over at the end is an error (TOO_LONG).
ParseItems(items, k, s, parsed) ==
    IF k > Len(items)
    THEN IF s = << >> THEN [ok |-> TRUE, parsed |-> parsed] ELSE Err
    ELSE LET item == items[k]
         IN CASE item.kind = "lit" ->
                   IF StartsWithAt(s, 1, item.text)
                   THEN ParseItems(items, k + 1,
                                   Slice(s, Len(item.text) + 1, Len(s)), parsed)
                   ELSE Err
              [] item.kind = "space" ->
                   ParseItems(items, k + 1, TrimStart(s), parsed)
              [] item.kind = "num" ->
                   LET r == ParseNumeric(item, s)
                   IN IF r.ok
                      THEN ParseItems(items, k + 1, r.rest,
                                      [parsed EXCEPT ![item.field] = r.value])
                      ELSE Err
              [] item.kind = "ampm" ->
                   LET r == ParseAmPm(s)
                   IN IF r.ok
                      THEN ParseItems(items, k + 1, r.rest,
                                      [parsed EXCEPT !.pm = r.value])
                      ELSE Err

IsLeapYear(y) == (y % 4 = 0 /\ y % 100 # 0) \/ y % 400 = 0

DaysInMonth(y, m) ==
    CASE m \in {1, 3, 5, 7, 8, 10, 12} -> 31
      [] m \in {4, 6, 9, 11} -> 30
      [] m = 2 -> IF IsLeapYear(y) THEN 29 ELSE 28

\* Parsed::to_naive_datetime_with_offset: the fields must name a date of the
\* calendar and a time of the 12-hour clock.
ValidFields(p) ==
    /\ p.month \in 1..12
    /\ p.day >= 1
    /\ p.day <= DaysInMonth(p.year, p.month)
    /\ p.hour12 \in 1..12
    /\ p.minute \in 0..59

\* NaiveDateTime::parse_from_str: [ok, dt] with dt the wall-clock fields,
\* the hour on the 24-hour clock, the second 0.
ParseFromStr(s) ==
    LET r == ParseItems(DATE_FORMAT, 1, s,
                 [month |-> 0, day |-> 0, year |-> 0, hour12 |-> 0,
                  minute |-> 0, pm |-> 0])
    IN IF r.ok /\ ValidFields(r.parsed)
       THEN [ok |-> TRUE,
             dt |-> [year |-> r.parsed.year, month |-> r.parsed.month,
                     day |-> r.parsed.day,
                     hour |-> (r.parsed.hour12 % 12) + 12 * r.parsed.pm,
                     minute |-> r.parsed.minute, second |-> 0]]
       ELSE Err

RECURSIVE DaysBeforeMonth(_, _)
DaysBeforeMonth(y, m) ==
    IF m = 1 THEN 0 ELSE DaysBeforeMonth(y, m - 1) + DaysInMonth(y, m - 1)

\* NaiveDate::ordinal
Ordinal(dt) == DaysBeforeMonth(dt.year, dt.month) + dt.day

\* NaiveDate::num_days_from_ce, for the years 1 and later.
NumDaysFromCe(dt) ==
    LET year == dt.year - 1
        div_100 == year \div 100
    IN ((year * 1461) \div 4) - div_100 + (div_100 \div 4) + Ordinal(dt)

\* NaiveDateTime::and_utc().timestamp(): an i64.
TimestampOf(dt) ==
    (NumDaysFromCe(dt) - 719163) * 86400
        + dt.hour * 3600 + dt.minute * 60 + dt.second

\* lib.rs 76: `as u64` of an i64: a negative value wraps to 2^64 + value.
AsU64(i) == [carry |-> IF i < 0 THEN 1 ELSE 0, low |-> i]

\* Variant: the fallback reads the clock anew.
FallbackReadsClock(captured, now) == now

\* lib.rs 78: the fallback of a string that does not parse.
Fallback(captured, now) == captured

\* lib.rs 69-79: the block's timestamp.
ResolveTimestamp(date_str, time_str, captured, now) ==
    LET full_date_str == date_str \o <<" ">> \o time_str
        parsed_time == ParseFromStr(full_date_str)
    IN IF parsed_time.ok
       THEN AsU64(TimestampOf(parsed_time.dt))
       ELSE AsU64(Fallback(captured, now))

-----------------------------------------------------------------------------
(* find_route_ids *)

\* str::contains
Contains(text, pat) == \E p \in 1..Len(text) : StartsWithAt(text, p, pat)

\* lib.rs 166-171
route_map ==
    << [abbr |-> <<"NWK", "-", "WTC">>, long_name |-> "Newark - World Trade Center"],
       [abbr |-> <<"HOB", "-", "WTC">>, long_name |-> "Hoboken - World Trade Center"],
       [abbr |-> <<"JSQ", "-", "33">>, long_name |-> "Journal Square - 33rd Street"],
       [abbr |-> <<"HOB", "-", "33">>, long_name |-> "Hoboken - 33rd Street"] >>

\* Variant: the search stops at the first route of that name.
FirstRouteNamed(routes, r, long_name) ==
    LET hits == {k \in r..Len(routes) : routes[k].long_name = Some(long_name)}
    IN IF hits = { } THEN << >>
       ELSE <<routes[CHOOSE k \in hits : \A h \in hits : k <= h].id>>

RECURSIVE RoutesNamed(_, _, _)
\* lib.rs 178-182: the inner loop over gtfs.routes.values(), from route r on.
\* routes lists the map's values in the order this HashMap iterates them.
RoutesNamed(routes, r, long_name) ==
    IF r > Len(routes) THEN << >>
    ELSE (IF routes[r].long_name = Some(long_name)
          THEN <<routes[r].id>> ELSE << >>)
         \o RoutesNamed(routes, r + 1, long_name)

RECURSIVE FindRouteIdsFrom(_, _, _)
\* lib.rs 175-184: the outer loop over route_map, from entry e on.
FindRouteIdsFrom(text, g, e) ==
    IF e > Len(route_map) THEN << >>
    ELSE (IF Contains(text, route_map[e].abbr)
          THEN RoutesNamed(g.routes, 1, route_map[e].long_name)
          ELSE << >>)
         \o FindRouteIdsFrom(text, g, e + 1)

\* lib.rs 165-186
FindRouteIds(text, g) == FindRouteIdsFrom(text, g, 1)

-----------------------------------------------------------------------------
(* One station block: lib.rs 57-151 *)

\* element.text().collect::<Vec<_>>().join("").trim()
NodeText(node) == Trim(Concat(node))

\* lib.rs 61-67: the first two nodes DATE_SELECTOR matches, "" for a missing one.
DateStr(block) == IF Len(block.dates) >= 1 THEN NodeText(block.dates[1]) ELSE << >>
TimeStr(block) == IF Len(block.dates) >= 2 THEN NodeText(block.dates[2]) ELSE << >>

\* lib.rs 81-89: the first node TEXT_SELECTOR matches, "" when there is none.
AlertText(block) == IF Len(block.texts) >= 1 THEN NodeText(block.texts[1]) ELSE << >>

\* Variant: the first agency that has an id, in place of the first agency.
FirstAgencyWithId(g) ==
    LET withId == SelectSeq(g.agencies, LAMBDA a : a.id # None)
    IN IF withId # << >> THEN withId[1].id ELSE Some("PATH")

\* lib.rs 113-117
AgencyId(g) ==
    LET first == IF g.agencies = << >> THEN None ELSE Some(Head(g.agencies))
        id == IF first = None THEN None ELSE first[1].id
    IN IF id # None THEN id ELSE Some("PATH")

\* lib.rs 111-134
InformedEntity(clean_alert_text, g) ==
    LET route_ids == FindRouteIds(clean_alert_text, g)
        agency_id == AgencyId(g)
    IN IF route_ids = << >>
       THEN << [agency_id |-> agency_id, route_id |-> None] >>
       ELSE [k \in 1..Len(route_ids) |->
                [agency_id |-> agency_id, route_id |-> Some(route_ids[k])]]

\* lib.rs 102: format!("path_alert_{}", index)
EntityId(i) == "path_alert_" \o ToString(i)

\* lib.rs 101-150
BuildEntity(i, timestamp, clean_alert_text, g) ==
    [id |-> EntityId(i),
     alert |-> Some(
        [active_period |-> << [start |-> Some(timestamp), end |-> None] >>,
         informed_entity |-> InformedEntity(clean_alert_text, g),
         cause |-> Some("UnknownCause"),
         effect |-> Some("UnknownEffect"),
         description_text |-> Some(
            [translation |-> << [text |-> clean_alert_text,
                                 language |-> Some("en")] >>])])]

\* Variant: the filter looks at the text before it is cleaned.
SkippedIfRawEmpty(alert_text, clean_alert_text) == alert_text = << >>

\* lib.rs 97-99: a block whose cleaned text is empty is skipped.
Skipped(alert_text, clean_alert_text) == clean_alert_text = << >>

\* Variant: the identifier counts the entities emitted, not the blocks seen.
AfterBlockRenumbered(ents, i, block, g, captured, now) ==
    LET timestamp == ResolveTimestamp(DateStr(block), TimeStr(block), captured, now)
        clean_alert_text == CleanAlertText(AlertText(block))
    IN IF clean_alert_text = << >>
       THEN ents
       ELSE Append(ents, BuildEntity(Len(ents), timestamp, clean_alert_text, g))

\* Variant: a block whose date and time do not parse is skipped.
AfterBlockStrictDate(ents, i, block, g, captured, now) ==
    LET timestamp == ResolveTimestamp(DateStr(block), TimeStr(block), captured, now)
        clean_alert_text == CleanAlertText(AlertText(block))
    IN IF clean_alert_text = << >>
          \/ ~ParseFromStr(DateStr(block) \o <<" ">> \o TimeStr(block)).ok
       THEN ents
       ELSE Append(ents, BuildEntity(i, timestamp, clean_alert_text, g))

\* lib.rs 56-152: what one iteration of the loop leaves in entities.
AfterBlock(ents, i, block, g, captured, now) ==
    LET timestamp == ResolveTimestamp(DateStr(block), TimeStr(block), captured, now)
        alert_text == AlertText(block)
        clean_alert_text == CleanAlertText(alert_text)
    IN IF Skipped(alert_text, clean_alert_text)
       THEN ents
       ELSE Append(ents, BuildEntity(i, timestamp, clean_alert_text, g))

\* lib.rs 154-162
FeedMessage(captured, ents) ==
    [ok |-> TRUE,
     header |-> [gtfs_realtime_version |-> "2.0",
                 incrementality |-> Some("FullDataset"),
                 timestamp |-> Some(AsU64(captured)),
                 feed_version |-> Some("1.0")],
     entity |-> ents]

-----------------------------------------------------------------------------
(* The inputs explored *)

MaxBlocks == 2     \* station blocks in a document
MaxTicks == 1      \* seconds the clock advances while the caller runs
MaxCalls == 2      \* invocations of parse_path_alerts by one caller
Now == 1762164000  \* the clock when the caller starts: 2025-11-03T10:00:00Z

DigitChars == <<"0", "1", "2", "3", "4", "5", "6", "7", "8", "9">>
Fmt2(n) == <<DigitChars[((n \div 10) % 10) + 1], DigitChars[(n % 10) + 1]>>
Fmt4(n) == Fmt2(n \div 100) \o Fmt2(n % 100)

\* lib.rs 70: how the bulletin prints a wall-clock time, "11/25/2025" and
\* "11:21 PM".
FormatDate(w) == Fmt2(w.month) \o <<"/">> \o Fmt2(w.day) \o <<"/">> \o Fmt4(w.year)
FormatTime(w) ==
    Fmt2(w.hour12) \o <<":">> \o Fmt2(w.minute) \o <<" ">>
        \o (IF w.pm = 1 THEN <<"P", "M">> ELSE <<"A", "M">>)

Posted == [month |-> 11, day |-> 25, year |-> 2025, hour12 |-> 11, minute |-> 21, pm |-> 1]

Apology ==
    <<"We", " ", "apologize", " ", "for", " ", "the", " ", "inconvenience",
      " ", "this", " ", "may", " ", "have", " ", "caused", ".">>

\* The station blocks a document is made of: [dates, texts], the nodes
\* DATE_SELECTOR and TEXT_SELECTOR match, each node the text chunks below it.
\* The markup itself, its "&quot" substitution and its parsing (lib.rs 50-51)
\* are represented by the elements they yield.
Blocks ==
    { \* the bulletin's usual block
      [dates |-> << <<FormatDate(Posted)>>, <<FormatTime(Posted)>> >>,
       texts |-> << << <<"NWK", "-", "WTC", " ", "delayed", ".", " ">> \o Apology >> >>],
      \* no date and no time node; two routes named; a second text node
      [dates |-> << >>,
       texts |-> << << <<" ", "JSQ", "-", "33", " ", "and", " ">>, <<"HOB", "-", "33", "\n">> >>,
                    << <<"ignored">> >> >>],
      \* a date without a time; boilerplate only
      [dates |-> << <<FormatDate(Posted)>> >>,
       texts |-> << << <<"We", " ", "regret", " ", "the", " ", "inconvenience", ".">> >> >>],
      \* no alert text node
      [dates |-> << <<FormatDate(Posted)>>, <<FormatTime(Posted)>> >>,
       texts |-> << >>],
      \* a time that is none; apologies on two lines
      [dates |-> << <<FormatDate(Posted)>>, << <<"2", "5", ":", "6", "1">> >> >>,
       texts |-> << << <<"HOB", "-", "WTC", " ", "suspended", "\n">>,
                       <<"We", " ", "apologize", " ", "inconvenience", "\n">>,
                       <<"We", " ", "regret", " ", "any", " ", "inconvenience">> >> >>],
      \* a date without a time; a text that stays
      [dates |-> << <<FormatDate(Posted)>> >>,
       texts |-> << << <<"Elevator", " ", "out", " ", "of", " ", "service">> >> >>] }

Documents == SeqsUpTo(Blocks, MaxBlocks)

Route(id, long_name) == [id |-> id, long_name |-> long_name]

\* The reference datasets: routes in the order the HashMap iterates them.
Datasets ==
    { [routes |-> << >>, agencies |-> << >>],
      [routes |-> << Route("862", None) >>,
       agencies |-> << [id |-> None] >>],
      [routes |-> << Route("859", Some("Newark - World Trade Center")),
                     Route("1024", Some("Newark - World Trade Center")) >>,
       agencies |-> << [id |-> Some("151")] >>],
      [routes |-> << Route("861", Some("Hoboken - 33rd Street")),
                     Route("1024", Some("Journal Square - 33rd Street")) >>,
       agencies |-> << [id |-> None], [id |-> Some("151")] >>] }

\* The orders in which a HashMap of the same entries may iterate.
IterationOrders(routes) ==
    {[k \in 1..Len(routes) |-> routes[f[k]]] : f \in Permutations(1..Len(routes))}

-----------------------------------------------------------------------------
(* parse_path_alerts, invoked by a caller *)

Init ==
    /\ content \in Documents
    /\ \E d \in Datasets : \E order \in IterationOrders(d.routes) :
          gtfs = [d EXCEPT !.routes = order]
    /\ clock \in {0 - 1, Now}
    /\ pc = "idle"
    /\ index = 0
    /\ entities = << >>
    /\ current_timestamp = 0
    /\ clock_reads = 0
    /\ result = None
    /\ previous = None
    /\ calls = 0
    /\ arg = None
    /\ ret = None

\* Variant: the vector outlives the invocation.
StaleEntities == entities

\* lib.rs 53: let mut entities = Vec::new()
NewEntities == << >>

\* lib.rs 49-54: the document is parsed, the clock is read; a clock before
\* the epoch makes duration_since fail and `?` return the error.
Invoke ==
    /\ pc = "idle"
    /\ calls' = calls + 1
    /\ clock_reads' = clock_reads + 1
    /\ IF clock < 0
       THEN /\ result' = Some(Err)
            /\ pc' = "done"
            /\ UNCHANGED <<index, entities, current_timestamp>>
       ELSE /\ current_timestamp' = clock
            /\ entities' = NewEntities
            /\ index' = 0
            /\ pc' = "loop"
            /\ UNCHANGED result
    /\ UNCHANGED <<content, gtfs, clock, previous, arg, ret>>

\* lib.rs 56-152: one iteration of the loop over the station blocks.
StationBlock ==
    /\ pc = "loop"
    /\ index < Len(content)
    /\ entities' = AfterBlock(entities, index, content[index + 1], gtfs,
                              current_timestamp, clock)
    /\ index' = index + 1
    /\ UNCHANGED <<content, gtfs, clock, pc, current_timestamp, clock_reads,
                   result, previous, calls, arg, ret>>

\* lib.rs 154-162
Return ==
    /\ pc = "loop"
    /\ index = Len(content)
    /\ result' = Some(FeedMessage(current_timestamp, entities))
    /\ pc' = "done"
    /\ UNCHANGED <<content, gtfs, clock, index, entities, current_timestamp,
                   clock_reads, previous, calls, arg, ret>>

\* The system clock advances while parse_path_alerts runs.
Tick ==
    /\ pc = "loop"
    /\ clock >= Now
    /\ clock < Now + MaxTicks
    /\ clock' = clock + 1
    /\ UNCHANGED <<content, gtfs, pc, index, entities, current_timestamp,
                   clock_reads, result, previous, calls, arg, ret>>

\* The caller keeps what it got and calls again with the same markup and the
\* same dataset, held in a HashMap that may iterate in another order.
Again ==
    /\ pc = "done"
    /\ calls < MaxCalls
    /\ previous' = Some([returned |-> result[1], routes |-> gtfs.routes])
    /\ result' = None
    /\ clock_reads' = 0
    /\ pc' = "idle"
    /\ \E order \in IterationOrders(gtfs.routes) :
          gtfs' = [gtfs EXCEPT !.routes = order]
    /\ UNCHANGED <<content, clock, index, entities, current_timestamp, calls,
                   arg, ret>>

\* One invocation, while the clock runs.
Next == Invoke \/ StationBlock \/ Return \/ Tick

Spec == Init /\ [][Next]_vars

\* Invocations one after the other, all within one second of the clock.
NextAgain == Invoke \/ StationBlock \/ Return \/ Again

SpecAgain == Init /\ [][NextAgain]_vars

-----------------------------------------------------------------------------
(* The text cleaning alone: every text of at most MaxPhrases phrases *)

MaxPhrases == 4

Phrases ==
    { <<"We", " ", "apologize", " ">>, <<"the">>, <<" ">>,
      <<"inconvenience">>, <<"\n">>, <<"Delays">>, <<".">>,
      <<"We", " ", "regret", " ", "for", " ", "the", " ", "inconvenience">> }

Texts == {Concat(ps) : ps \in SeqsUpTo(Phrases, MaxPhrases)}

EmptyDataset == [routes |-> << >>, agencies |-> << >>]

\* The variables of parse_path_alerts' caller, at rest.
NoCaller ==
    /\ content = << >>
    /\ gtfs = EmptyDataset
    /\ clock = Now
    /\ pc = "pure"
    /\ index = 0
    /\ entities = << >>
    /\ current_timestamp = Now
    /\ clock_reads = 0
    /\ result = None
    /\ previous = None
    /\ calls = 0

callerVars == <<content, gtfs, clock, pc, index, entities, current_timestamp,
                clock_reads, result, previous, calls>>

InitClean ==
    /\ NoCaller
    /\ arg \in Texts
    /\ ret = << >>

\* lib.rs 92-95 applied to the alert text.
CleanOnce ==
    /\ ret = << >>
    /\ ret' = <<CleanAlertText(arg)>>
    /\ UNCHANGED <<callerVars, arg>>

\* ... and applied to its own result.
CleanTwice ==
    /\ Len(ret) = 1
    /\ ret' = Append(ret, CleanAlertText(ret[1]))
    /\ UNCHANGED <<callerVars, arg>>

NextClean == CleanOnce \/ CleanTwice

SpecClean == InitClean /\ [][NextClean]_vars

-----------------------------------------------------------------------------
(* The timestamp of a block alone *)

WallClocks ==
    [month : {1, 2, 3, 12}, day : {1, 28, 29, 31}, year : {1969, 1970, 2024, 2025},
     hour12 : {1, 11, 12}, minute : {0, 59}, pm : {0, 1}]

\* Date and time node texts that are not of the bulletin's usual form.
OddDateTimes ==
    { << << >>, FormatTime(Posted) >>,
      << FormatDate(Posted), << >> >>,
      << << >>, << >> >>,
      << <<"1", "/", "5", "/", "2", "0", "2", "5">>, <<"1", ":", "0", "5", " ", "p", "m">> >>,
      << FormatDate(Posted), <<"1", "1", ":", "2", "1">> >>,
      << FormatDate(Posted), <<"2", "3", ":", "2", "1", " ", "P", "M">> >>,
      << FormatDate(Posted), <<"0", "0", ":", "2", "1", " ", "A", "M">> >>,
      << FormatDate(Posted), FormatTime(Posted) \o <<" ", "E", "S", "T">> >>,
      << <<"2", "0", "2", "5", "-", "1", "1", "-", "2", "5">>, FormatTime(Posted) >>,
      << <<"1", "3", "/", "0", "1", "/", "2", "0", "2", "5">>, FormatTime(Posted) >>,
      << <<"1", "1", "/", "2", "5", "/", "+", "2", "0", "2", "5">>, FormatTime(Posted) >> }

InitTime ==
    /\ NoCaller
    /\ arg \in {<<FormatDate(w), FormatTime(w)>> : w \in WallClocks} \cup OddDateTimes
    /\ ret = << >>

\* lib.rs 69-79 applied to the date and time strings.
Resolve ==
    /\ ret = << >>
    /\ ret' = <<ResolveTimestamp(arg[1], arg[2], current_timestamp, clock)>>
    /\ UNCHANGED <<callerVars, arg>>

NextTime == Resolve

SpecTime == InitTime /\ [][NextTime]_vars

-----------------------------------------------------------------------------
(* find_route_ids alone *)

MaxMentions == 2   \* phrases in the text
MaxRoutes == 2     \* routes in the reference dataset

Mentions ==
    { <<"NWK", "-", "WTC">>, <<"HOB", "-", "WTC">>, <<"JSQ", "-", "33">>,
      <<"HOB", "-", "33">>, <<"HOB">>, <<"NWK", " ", "WTC">>, <<" ", "delays", " ">> }

MentionTexts == {Concat(ps) : ps \in SeqsUpTo(Mentions, MaxMentions)}

RouteSet ==
    { Route("859", Some("Newark - World Trade Center")),
      Route("1024", Some("Newark - World Trade Center")),
      Route("860", Some("Hoboken - World Trade Center")),
      Route("861", Some("Hoboken - 33rd Street")),
      Route("862", Some("Newark - World Trade Center Express")),
      Route("74", None) }

\* HashMaps of at most MaxRoutes routes, keyed by route id, in every
\* iteration order.
RouteMaps ==
    {rs \in SeqsUpTo(RouteSet, MaxRoutes) :
        \A i, j \in 1..Len(rs) : i # j => rs[i].id # rs[j].id}

InitRoutes ==
    /\ NoCaller
    /\ arg \in MentionTexts \X {[routes |-> rs, agencies |-> << >>] : rs \in RouteMaps}
    /\ ret = << >>

\* lib.rs 165-186 applied to a text and a dataset.
Find ==
    /\ ret = << >>
    /\ ret' = <<FindRouteIds(arg[1], arg[2])>>
    /\ UNCHANGED <<callerVars, arg>>

NextRoutes == Find

SpecRoutes == InitRoutes /\ [][NextRoutes]_vars

-----------------------------------------------------------------------------
(* Properties *)

\* The entities built so far, or returned.
Out == IF result # None /\ result[1].ok THEN result[1].entity ELSE entities

Running == pc \in {"loop", "done"} /\ clock >= 0

Description(e) == e.alert[1].description_text[1].translation[1].text
Informed(e) == e.alert[1].informed_entity
Start(e) == e.alert[1].active_period[1].start

FullDateStr(block) == DateStr(block) \o <<" ">> \o TimeStr(block)
CleanOf(block) == CleanAlertText(AlertText(block))

\* C1: no entity is emitted for a station block whose cleaned alert text is
\* empty (no alert-text node, or boilerplate only): every entity carries a
\* description with one translation whose text is not empty, and no entity
\* bears the index of a block that cleans to nothing.
NoEntityWithoutText ==
    /\ \A k \in 1..Len(Out) :
          /\ Out[k].alert # None
          /\ Out[k].alert[1].description_text # None
          /\ Len(Out[k].alert[1].description_text[1].translation) = 1
          /\ Description(Out[k]) # << >>
    /\ \A i \in 0..(index - 1) :
          CleanOf(content[i + 1]) = << >>
              => \A k \in 1..Len(Out) : Out[k].id # EntityId(i)

\* C1's case: a block of boilerplate only was dropped beside a block that
\* was emitted.
BoilerplateBlockDropped ==
    /\ pc = "done" /\ result[1].ok
    /\ Len(content) = 2 /\ Len(result[1].entity) = 1
    /\ \E i \in 1..2 : AlertText(content[i]) # << >> /\ CleanOf(content[i]) = << >>

\* C2: the entities' identifiers are "path_alert_<i>" with i the zero-based
\* position in the document of the block each was built from, counted before
\* filtering, strictly increasing along the output; at most one entity per
\* block.
IdsInDocumentOrder ==
    /\ Len(Out) <= Len(content)
    /\ \A k \in 1..Len(Out) :
          \E i \in 0..(Len(content) - 1) :
              /\ Out[k].id = EntityId(i)
              /\ Description(Out[k]) = CleanOf(content[i + 1])
    /\ \A k, l \in 1..Len(Out) :
          k < l => \A i, j \in 0..(Len(content) - 1) :
                       Out[k].id = EntityId(i) /\ Out[l].id = EntityId(j) => i < j

\* C2's case: the first block was dropped and the second kept its index 1.
IndexSkipped ==
    /\ pc = "done" /\ result[1].ok
    /\ Len(content) = 2
    /\ Len(result[1].entity) = 1
    /\ result[1].entity[1].id = "path_alert_1"

\* The routes of the dataset named long_name, as the map iterates them.
IdsNamed(g, long_name) ==
    LET named == SelectSeq(g.routes, LAMBDA r : r.long_name = <<long_name>>)
    IN [k \in 1..Len(named) |-> named[k].id]

Mentioned(text, abbr) ==
    \E p \in 1..(Len(text) - Len(abbr) + 1) : SubSeq(text, p, p + Len(abbr) - 1) = abbr

SegmentOf(text, g, e) ==
    IF Mentioned(text, route_map[e].abbr) THEN IdsNamed(g, route_map[e].long_name)
    ELSE << >>

\* C3: find_route_ids returns, for each of the four table entries in table
\* order whose abbreviation is a substring of the text, the id of every
\* route whose long name equals the entry's, and nothing else.
RouteIdsAreTheNamedRoutes ==
    ret # << >> =>
        ret[1] = SegmentOf(arg[1], arg[2], 1) \o SegmentOf(arg[1], arg[2], 2)
                    \o SegmentOf(arg[1], arg[2], 3) \o SegmentOf(arg[1], arg[2], 4)

\* C3's case: "NWK-WTC" in the text and two routes of that long name.
TwoRoutesOfOneName ==
    /\ ret # << >>
    /\ Mentioned(arg[1], <<"NWK", "-", "WTC">>)
    /\ Len(ret[1]) = 2
    /\ \A r \in 1..2 : arg[2].routes[r].long_name = <<"Newark - World Trade Center">>

YearLength(y) == IF y % 400 = 0 \/ (y % 4 = 0 /\ y % 100 # 0) THEN 366 ELSE 365

RECURSIVE DaysSince1970(_)
\* Days from 1970-01-01 to January 1st of year y.
DaysSince1970(y) ==
    IF y = 1970 THEN 0
    ELSE IF y > 1970 THEN DaysSince1970(y - 1) + YearLength(y - 1)
    ELSE DaysSince1970(y + 1) - YearLength(y)

MonthLengths(y) ==
    <<31, YearLength(y) - 337, 31, 30, 31, 30, 31, 31, 30, 31, 30, 31>>

RECURSIVE DaysOfMonthsBefore(_, _)
DaysOfMonthsBefore(y, m) ==
    IF m = 1 THEN 0 ELSE DaysOfMonthsBefore(y, m - 1) + MonthLengths(y)[m - 1]

OnCalendar(w) == w.day <= MonthLengths(w.year)[w.month]

\* The epoch seconds of wall clock w read as UTC.
ExactEpoch(w) ==
    (DaysSince1970(w.year) + DaysOfMonthsBefore(w.year, w.month) + w.day - 1) * 86400
        + ((w.hour12 % 12) + 12 * w.pm) * 3600 + w.minute * 60

\* C4: for every date and time that parse, years before 1970 too, the
\* active period starts at the exact epoch seconds of that wall clock read
\* as UTC.
StartIsExactEpoch ==
    ret # << >> =>
        \A w \in WallClocks :
            arg = <<FormatDate(w), FormatTime(w)>> /\ OnCalendar(w)
                => ret[1] = [carry |-> 0, low |-> ExactEpoch(w)]

\* A parse failure.
DateFails(block) == ~ParseFromStr(FullDateStr(block)).ok

\* C5: the clock is read once per invocation, before any block; an entity of
\* a block whose date and time do not parse starts at the captured value,
\* which is the header's timestamp; the invocation still returns Ok.
FallbackIsCapturedTime ==
    /\ pc = "idle" => clock_reads = 0
    /\ pc \in {"loop", "done"} => clock_reads = 1
    /\ Running =>
          \A k \in 1..Len(Out) : \A i \in 0..(Len(content) - 1) :
              Out[k].id = EntityId(i) /\ DateFails(content[i + 1])
                  => Start(Out[k]) = Some(AsU64(current_timestamp))
    /\ Running /\ pc = "done" =>
          /\ result[1].ok
          /\ result[1].header.timestamp = Some(AsU64(current_timestamp))
          /\ \A k \in 1..Len(Out) : \A i \in 0..(Len(content) - 1) :
                Out[k].id = EntityId(i) /\ DateFails(content[i + 1])
                    => Start(Out[k]) = result[1].header.timestamp

\* C5's case: a block without date nodes was emitted after the clock had
\* moved on.
FallbackAfterTick ==
    /\ pc = "done" /\ result[1].ok
    /\ clock > current_timestamp
    /\ \E k \in 1..Len(Out) : \E i \in 0..(Len(content) - 1) :
          /\ Out[k].id = EntityId(i)
          /\ content[i + 1].dates = << >>
          /\ Start(Out[k]) = result[1].header.timestamp

\* C6: cleaning is idempotent, and the cleaned text holds no match of the
\* apology pattern.
CleanIsIdempotent ==
    /\ Len(ret) >= 1 => FindAt(APOLOGIZE_REGEX, ret[1], 1) = << >>
    /\ Len(ret) = 2 => ret[2] = ret[1]

\* C6's case: an apology was removed and text remains.
CleanedTwice ==
    /\ Len(ret) = 2
    /\ FindAt(APOLOGIZE_REGEX, arg, 1) # << >>
    /\ ret[1] # << >>

\* What block i contributes, judged from the block alone.
BlockAlone(i) ==
    LET block == content[i + 1]
        clean == CleanOf(block)
        mine == {k \in 1..Len(Out) : Out[k].id = EntityId(i)}
    IN IF clean = << >> THEN mine = { }
       ELSE /\ Cardinality(mine) = 1
            /\ \A k \in mine :
                  Out[k] = [id |-> EntityId(i),
                            alert |-> Some(
                              [active_period |->
                                  << [start |-> Some(ResolveTimestamp(DateStr(block),
                                                  TimeStr(block), current_timestamp,
                                                  current_timestamp)),
                                      end |-> None] >>,
                               informed_entity |-> InformedEntity(clean, gtfs),
                               cause |-> Some("UnknownCause"),
                               effect |-> Some("UnknownEffect"),
                               description_text |-> Some(
                                  [translation |-> << [text |-> clean,
                                                       language |-> Some("en")] >>])])]

\* C7: when the clock read succeeds the invocation returns Ok, and what a
\* block yields depends on that block, its index, the reference data and
\* the captured time alone; a document without blocks yields the header and
\* no entity.
BlocksAreIndependent ==
    Running =>
        /\ pc = "done" => result[1].ok
        /\ \A i \in 0..(index - 1) : BlockAlone(i)
        /\ Len(Out) = Cardinality({i \in 0..(index - 1) : CleanOf(content[i + 1]) # << >>})
        /\ pc = "done" /\ content = << >> =>
              result[1] = [ok |-> TRUE,
                           header |-> [gtfs_realtime_version |-> "2.0",
                                       incrementality |-> Some("FullDataset"),
                                       timestamp |-> Some(AsU64(current_timestamp)),
                                       feed_version |-> Some("1.0")],
                           entity |-> << >>]

\* C7's case: a block without alert text and with a time that does not parse
\* came before a block that was emitted.
BadBlockBeforeGoodBlock ==
    /\ pc = "done" /\ result[1].ok
    /\ Len(content) = 2
    /\ DateFails(content[1]) /\ CleanOf(content[1]) = << >>
    /\ Len(result[1].entity) = 1
    /\ ~DateFails(content[2])

RECURSIVE CountMatches(_, _, _)
\* The matches Regex::find_iter yields from position p on.
CountMatches(re, s, p) ==
    LET m == FindAt(re, s, p)
    IN IF m = << >> THEN 0 ELSE 1 + CountMatches(re, s, m[2])

\* C8 as claimed: of several matches only the first is removed.
OnlyFirstApologyRemoved ==
    Len(ret) >= 1 /\ CountMatches(APOLOGIZE_REGEX, arg, 1) > 1
        => ret[1] = Trim(ReplaceFirst(APOLOGIZE_REGEX, arg))

\* C8 amended: when a text holds more than one match of the apology pattern
\* every match is removed: none is left in the cleaned text, which is
\* not the text with only the first match removed.
EveryApologyRemoved ==
    Len(ret) >= 1 /\ CountMatches(APOLOGIZE_REGEX, arg, 1) > 1
        => /\ CountMatches(APOLOGIZE_REGEX, ret[1], 1) = 0
           /\ ret[1] # Trim(ReplaceFirst(APOLOGIZE_REGEX, arg))

\* C8's case: apologies on two lines and text that stays.
TwoApologies ==
    /\ Len(ret) >= 1
    /\ CountMatches(APOLOGIZE_REGEX, arg, 1) = 2
    /\ ret[1] # << >>

\* The id of the agency every selector must carry.
FirstAgencyOrPath ==
    IF gtfs.agencies # << >> /\ gtfs.agencies[1].id # None
    THEN gtfs.agencies[1].id
    ELSE <<"PATH">>

\* C9: every entity's informed-entity list is not empty, every selector
\* carries the first agency's id or "PATH"; one selector without a route when
\* find_route_ids finds none, else one selector per route id found, in order.
ScopedToAgencyAndRoutes ==
    Running =>
        \A k \in 1..Len(Out) :
            LET inf == Informed(Out[k])
                ids == FindRouteIds(Description(Out[k]), gtfs)
            IN /\ Len(inf) >= 1
               /\ \A m \in 1..Len(inf) : inf[m].agency_id = FirstAgencyOrPath
               /\ (ids = << >>) <=> (Len(inf) = 1 /\ inf[1].route_id = None)
               /\ ids # << >> =>
                     /\ Len(inf) = Len(ids)
                     /\ \A m \in 1..Len(inf) : inf[m].route_id = <<ids[m]>>
               /\ gtfs = EmptyDataset =>
                     inf = << [agency_id |-> <<"PATH">>, route_id |-> None] >>

\* C9's case: two routes found, and only the second agency has an id.
TwoSelectorsLaterAgency ==
    /\ pc = "done" /\ result[1].ok
    /\ Len(gtfs.agencies) = 2 /\ gtfs.agencies[1].id = None
    /\ \E k \in 1..Len(Out) :
          /\ Len(Informed(Out[k])) = 2
          /\ \A m \in 1..2 : Informed(Out[k])[m].agency_id = <<"PATH">>

\* Two invocations that returned Ok from the same clock reading.
CalledTwice ==
    /\ pc = "done" /\ previous # None
    /\ result[1].ok /\ previous[1].returned.ok
    /\ result[1].header.timestamp = previous[1].returned.header.timestamp

\* C10 as claimed: the same markup, dataset and clock reading give the same
\* feed message, the order of the selectors included.
SameInputsSameFeed ==
    CalledTwice => result[1] = previous[1].returned

Occurrences(seq, x) == Cardinality({m \in 1..Len(seq) : seq[m] = x})

\* The long name of the route a selector names.
LongNameOf(sel) ==
    IF sel.route_id = None THEN None
    ELSE LET r == CHOOSE r \in 1..Len(gtfs.routes) : gtfs.routes[r].id = sel.route_id[1]
         IN gtfs.routes[r].long_name

\* C10 amended: the two feed messages are the same but for the order, within
\* an entity, of the selectors of routes that share a long name; they are
\* identical when the dataset's routes iterate in the same order both times.
SameFeedUpToRouteOrder ==
    CalledTwice =>
        LET a == previous[1].returned
            b == result[1]
        IN /\ a.header = b.header
           /\ Len(a.entity) = Len(b.entity)
           /\ \A k \in 1..Len(a.entity) :
                 LET ia == Informed(a.entity[k])
                     ib == Informed(b.entity[k])
                 IN /\ a.entity[k].id = b.entity[k].id
                    /\ [a.entity[k].alert[1] EXCEPT !.informed_entity = << >>]
                          = [b.entity[k].alert[1] EXCEPT !.informed_entity = << >>]
                    /\ Len(ia) = Len(ib)
                    /\ \A m \in 1..Len(ia) :
                          /\ Occurrences(ia, ia[m]) = Occurrences(ib, ia[m])
                          /\ LongNameOf(ia[m]) = LongNameOf(ib[m])
           /\ previous[1].routes = gtfs.routes => a = b

\* C10's case: the second invocation returned the selectors in another order.
SelectorsReordered ==
    CalledTwice /\ result[1] # previous[1].returned

=============================================================================
